---- MODULE Spec2Model ----
(***************************************************************************)
(* Session engine of the Micro-Air EasyTouch BLE thermostat integration.   *)
(* Models custom_components/micro_air_easytouch/micro_air_easytouch/       *)
(* parser.py: the adaptive delay tracker, _connect_to_device,              *)
(* authenticate (with its retry_authentication wrapper), the GATT          *)
(* read/write helpers, _reconnect_and_authenticate and async_poll.         *)
(* Every action is the code between two await points of the coroutine;     *)
(* the radio link can drop at any await point (LinkDrop).                  *)
(***************************************************************************)
EXTENDS Integers, Sequences, FiniteSets, TLC

(***************************** bounds **************************************)
MaxFailures == 2     \* cap on the sum of the tracker's failure counters
MaxStreak == 5       \* cap on one failure counter when the tracker is
                     \* driven on its own (SpecTracker)
MaxEntries == 2      \* cap on the entries recorded when one tracker call
                     \* is made on any address and kind (SpecTrackerAll)
MaxTime == 4         \* clock readings and poll times are in 0..MaxTime
MaxInterval == 2     \* UPDATE_INTERVAL is in 1..MaxInterval

(************************** program constants ******************************)
ConnectAttemptsOneMore == 7 + 1
ConnectAttempts == 7     \* retry_bluetooth_connection_error(attempts=7)
AuthRetries == 3         \* retry_authentication(retries=3, ...)
AuthRetryDelayDefault == 2 - 1   \* the decorator's default delay
AuthRetryDelay == 2      \* retry_authentication(..., delay=2)
IoRetriesOneLess == 3 - 1
IoRetries == 3           \* retries: int = 3 of the GATT helpers
max_delay == 4           \* self._max_delay = 4.0
ExponentCapTwo == 3 - 1
ExponentCap == 3         \* min(current['failures'], 3)

\* values of self._client: None, False (what _connect_to_device returns
\* when no services are found) or a client object of establish_connection
None == "None"
False == "False"
Client == "client"

Kinds == {"connect", "read", "write", "auth"}
Address == "a1"          \* ble_device.address of the polled device
Addresses == {"a1", "a2"}

\* self._ble_device is read at parser.py:325 but never assigned by
\* __init__ (parser.py:129-136) or anywhere else: the read raises
\* AttributeError before _connect_to_device is called.
HasBleDeviceSet == TRUE
HasBleDevice == FALSE

(*************************** delay tracker *********************************)
RECURSIVE Pow(_, _)
Pow(b, e) == IF e = 0 THEN 1 ELSE b * Pow(b, e - 1)

Min(a, b) == IF a < b THEN a ELSE b
Max(a, b) == IF a > b THEN a ELSE b

\* Delays are exact multiples of 1/Scale seconds: a delay is a base value
\* (a multiple of 0.5) multiplied by 0.75 once per failure counted, so at
\* most Max(MaxFailures, MaxStreak) times.
Scale == 2 * Pow(4, Max(MaxFailures, MaxStreak))

NoEntry == [present |-> FALSE, delay |-> 0, failures |-> 0]

_get_operation_delay(dd, address, operation) ==
    IF dd[address][operation].present THEN dd[address][operation].delay ELSE 0

\* self._device_delays after _get_operation_delay(address, operation):
\* the lookups are dict.get with a default (parser.py:146-147)
_get_operation_delay_setdefault(dd, address, operation) ==
    IF dd[address][operation].present THEN dd
    ELSE [dd EXCEPT ![address][operation] =
            [present |-> TRUE, delay |-> 0, failures |-> 0]]
_get_operation_delay_state(dd, address, operation) == dd

_increase_operation_delay_uncapped(dd, address, operation) ==
    LET current == dd[address][operation]
        failures == current.failures + 1
    IN [dd EXCEPT ![address][operation] =
            [present |-> TRUE, delay |-> (Scale * Pow(2, failures)) \div 2,
             failures |-> failures]]
_increase_operation_delay_any_address(dd, address, operation) ==
    LET current == dd[address][operation]
        failures == current.failures + 1
        delay == Min((Scale * Pow(2, Min(failures, ExponentCap))) \div 2,
                     max_delay * Scale)
    IN [a \in DOMAIN dd |-> [dd[a] EXCEPT ![operation] =
            [present |-> TRUE, delay |-> delay, failures |-> failures]]]
_increase_operation_delay(dd, address, operation) ==
    LET current == dd[address][operation]
        failures == current.failures + 1
        delay == Min((Scale * Pow(2, Min(failures, ExponentCap))) \div 2,
                     max_delay * Scale)
    IN [dd EXCEPT ![address][operation] =
            [present |-> TRUE, delay |-> delay, failures |-> failures]]

_adjust_operation_delay_reset(dd, address, operation) ==
    IF dd[address][operation].present
    THEN [dd EXCEPT ![address][operation] =
            [present |-> TRUE, delay |-> 0, failures |-> 0]]
    ELSE dd
_adjust_operation_delay_creates(dd, address, operation) ==
    LET current == dd[address][operation]
        decayed == IF current.failures > 0
                   THEN [current EXCEPT !.failures = Max(0, current.failures - 1),
                                        !.delay = Max(0, (current.delay * 3) \div 4)]
                   ELSE current
        snapped == IF decayed.failures = 0 /\ decayed.delay * 10 < Scale
                   THEN [decayed EXCEPT !.delay = 0]
                   ELSE decayed
    IN [dd EXCEPT ![address][operation] = [snapped EXCEPT !.present = TRUE]]
_adjust_operation_delay(dd, address, operation) ==
    LET current == dd[address][operation]
        decayed == IF current.failures > 0
                   THEN [current EXCEPT !.failures = Max(0, current.failures - 1),
                                        !.delay = Max(0, (current.delay * 3) \div 4)]
                   ELSE current
        snapped == IF decayed.failures = 0 /\ decayed.delay * 10 < Scale
                   THEN [decayed EXCEPT !.delay = 0]
                   ELSE decayed
    IN IF current.present
       THEN [dd EXCEPT ![address][operation] = snapped]
       ELSE dd

(****************************** state **************************************)
VARIABLES
    password,        \* self._password: "none" (None), "empty" (""), "set"
    client,          \* self._client: None, False or Client
    clientServices,  \* self._client.services is non-empty
    is_connected,    \* self._client.is_connected: its link is up
    event,           \* self._event is set
    device_delays,   \* self._device_delays
    pc,              \* await point the poll coroutine is suspended at
    outcome,         \* how the poll ends: skipped, failed, ok, raised
    connCaller,      \* who awaits _connect_to_device: poll, raa, auth
    authCaller,      \* who awaits authenticate: poll, raa
    helper,          \* GATT helper in progress: none, write, read
    connTries,       \* transport attempts made by the current connect call
    authTries,       \* attempts made by the current authenticate call
    ioTries,         \* attempts made by the current GATT helper call
    hist,            \* observations of the current poll
    acall,           \* observations of the current authenticate call
    ret,             \* what the functions that returned in this step returned
    pcE,             \* await point of the reboot button's coroutine
    arg,             \* the last call made on its own: function and inputs
    result,          \* what that call returned
    consumer,        \* what the coordinator and the entities hold
    notify           \* the notification wait of the earlier poll variant

vars == <<password, client, clientServices, is_connected, event, device_delays, pc,
          outcome, connCaller, authCaller, helper, connTries, authTries,
          ioTries, hist, acall, ret, pcE, arg, result, consumer,
          notify>>

Set(s) ==
    /\ password' = s.password
    /\ client' = s.client
    /\ clientServices' = s.clientServices
    /\ is_connected' = s.is_connected
    /\ event' = s.event
    /\ device_delays' = s.device_delays
    /\ pc' = s.pc
    /\ outcome' = s.outcome
    /\ connCaller' = s.connCaller
    /\ authCaller' = s.authCaller
    /\ helper' = s.helper
    /\ connTries' = s.connTries
    /\ authTries' = s.authTries
    /\ ioTries' = s.ioTries
    /\ hist' = s.hist
    /\ acall' = s.acall
    /\ ret' = s.ret
    /\ pcE' = s.pcE
    /\ arg' = s.arg
    /\ result' = s.result
    /\ consumer' = s.consumer
    /\ notify' = s.notify

WithinBounds(s) ==
    \A a \in Addresses :
        LET f(k) == s.device_delays[a][k].failures
        IN f("connect") + f("read") + f("write") + f("auth") <= MaxFailures

\* orphan: a connection opened during this poll is still open at the
\* transport and self._client no longer refers to it
\* ready: how the current attempt of a GATT helper found the connection:
\* "checked" (up at its check), "reconnected" (its
\* _reconnect_and_authenticate returned True), else "no"
\* atStart: the current helper's tracker entry when the helper was called
\* issued: the GATT writes and reads the helpers have issued
NoHist == [started |-> {}, okStages |-> {}, orphan |-> FALSE, ready |-> "no",
           atStart |-> NoEntry, issued |-> [write |-> 0, read |-> 0]]
NoCall == [pauseLog |-> <<>>, connects |-> 0, pwWrites |-> 0, dead |-> FALSE]
\* gatt: the GATT call that completed in this step, as <<[stage, raised]>>;
\* reboot: the reset write of reboot_device completed, as
\* <<[raised, reported]>>
NoRet == [connect |-> <<>>, auth |-> <<>>, gatt |-> <<>>, reboot |-> <<>>]
NoArg == [fn |-> "none"]

\* no wait made yet. elapsed: time-units the wait has lasted; ended: how
\* it ended (none, notified, timeout); payload: the status read parses
\* to a record with a known current_mode; raised: a call after the wait
\* raised
NoNotify == [elapsed |-> 0, ended |-> "none", payload |-> TRUE,
             raised |-> FALSE]

\* nothing fetched yet: no sensor values on the data object, no
\* coordinator data, entities without a value, climate _state = {}
\* (climate.py:113); fetch and good record the last fetch and the
\* payload of the last fetch that decoded one, per consumer
NoConsumer ==
    [sensor_values |-> [x \in {} |-> TRUE], data |-> <<>>,
     last_update_success |-> TRUE, native_value |-> <<>>,
     state |-> [x \in {} |-> TRUE],
     fetch |-> [by |-> "none", outcome |-> "none"],
     good |-> [poll |-> <<>>, climate |-> <<>>]]

\* the current state as a record; the per-step observations start empty
St == [password |-> password, client |-> client,
       clientServices |-> clientServices, is_connected |-> is_connected,
       event |-> event,
       device_delays |-> device_delays, pc |-> pc, outcome |-> outcome,
       connCaller |-> connCaller, authCaller |-> authCaller,
       helper |-> helper, connTries |-> connTries, authTries |-> authTries,
       ioTries |-> ioTries, hist |-> hist, acall |-> acall, ret |-> NoRet,
       pcE |-> pcE, arg |-> arg, result |-> result, consumer |-> consumer,
       notify |-> notify]

InitSession ==
    /\ password \in {"none", "empty", "set"}
    /\ client = None
    /\ clientServices = FALSE
    /\ is_connected = FALSE
    /\ event = FALSE
    /\ device_delays = [a \in Addresses |-> [k \in Kinds |-> NoEntry]]
    /\ pc = "idle"
    /\ outcome = "none"
    /\ connCaller = "none"
    /\ authCaller = "none"
    /\ helper = "none"
    /\ connTries = 0
    /\ authTries = 0
    /\ ioTries = 0
    /\ hist = NoHist
    /\ acall = NoCall
    /\ ret = NoRet
    /\ pcE = "idle"
    /\ consumer = NoConsumer
    /\ notify = NoNotify

Init ==
    /\ InitSession
    /\ arg = NoArg
    /\ result = <<>>

\* self._client and self._client.is_connected
Connected(s) == s.client = Client /\ s.is_connected

\* self._client = v: a client that is dropped while its link is up stays
\* open at the transport
Assign(s, v) ==
    IF v = s.client THEN s
    ELSE [s EXCEPT !.client = v,
                   !.is_connected = FALSE,
                   !.clientServices = FALSE,
                   !.hist.orphan = @ \/ Connected(s)]

\* await self._client.disconnect() is called
Disconnect(s) == [s EXCEPT !.is_connected = FALSE]

(****************** async_poll: leaving the try block **********************)
\* a return or raise inside the try block of async_poll: the finally
\* clause (parser.py:623-631) runs next
PollExit(s, out) ==
    [s EXCEPT !.pc = "finally", !.outcome = out, !.helper = "none",
              !.ioTries = 0, !.connCaller = "none", !.authCaller = "none"]

(********************* GATT helpers: one attempt ***************************)
\* await self._client.write_gatt_char / read_gatt_char is issued
\* (on self._client = None the attribute access raises AttributeError,
\* which no handler of the helper catches)
IssueIo(s) ==
    IF s.client = None THEN PollExit(s, "raised")
    ELSE [s EXCEPT !.pc = "io_op", !.hist.started = @ \cup {s.helper},
                   !.hist.issued[s.helper] = @ + 1]

\* the operation name a helper passes to the delay tracker: 'write' in
\* _write_gatt_with_retry, 'read' in _read_gatt_with_retry
BucketAlwaysWrite(kind) == "write"
Bucket(kind) == kind

\* parser.py:385 and 453: `if attempt < retries - 1` guards the
\* tracker update of a failed attempt (tries is attempt + 1)
CountsFailureOneLess(tries) == tries < IoRetries - 1
CountsFailure(tries) == tries < IoRetries

\* parser.py:368 and 436: `for attempt in range(retries)` has a next
\* pass after the pass that made attempt number tries
LoopContinuesForever(tries) == TRUE
LoopContinues(tries) == tries < IoRetries

\* parser.py:374-377 and 442-445: apply the helper's own delay
IoDelay(s) ==
    IF _get_operation_delay(s.device_delays, Address, Bucket(s.helper)) > 0
    THEN [s EXCEPT !.pc = "io_sleep"]
    ELSE IssueIo(s)

\* the decorated _connect_to_device is called: the first
\* establish_connection is awaited
StartConnect(s, caller) ==
    [s EXCEPT !.pc = "conn_try", !.connCaller = caller, !.connTries = 1]

\* _reconnect_and_authenticate up to its first await (parser.py:399-406)
StartRaa(s) ==
    IF _get_operation_delay(s.device_delays, Address, "connect") > 0
    THEN [s EXCEPT !.pc = "raa_conn_sleep"]
    ELSE StartConnect(s, "raa")

\* top of the helper's for loop (parser.py:368-372, 436-440)
IoAttemptNoCheck(s) ==
    IoDelay([s EXCEPT !.ioTries = @ + 1,
                      !.hist.ready = IF Connected(s) THEN "checked"
                                     ELSE "no"])
IoAttempt(s) ==
    LET s1 == [s EXCEPT !.ioTries = @ + 1,
                        !.hist.ready = IF Connected(s) THEN "checked"
                                       ELSE "no"]
    IN IF ~Connected(s1) THEN StartRaa(s1) ELSE IoDelay(s1)

StartHelper(s, kind) ==
    IoAttempt([s EXCEPT !.helper = kind, !.ioTries = 0,
                        !.hist.atStart = s.device_delays[Address][kind]])

(***************************** authenticate ********************************)
\* authenticate returns r to its caller: async_poll (parser.py:502-517)
\* or _reconnect_and_authenticate (parser.py:419-426)
AuthReturnIgnored(s, r) ==
    LET s1 == [s EXCEPT !.ret.auth = <<r>>, !.authTries = 0,
                        !.acall = NoCall]
    IN StartHelper(s1, "write")
AuthReturnNextAttempt(s, r) ==
    LET s1 == [s EXCEPT !.ret.auth = <<r>>, !.authTries = 0,
                        !.acall = NoCall]
    IN IF s.authCaller = "poll"
       THEN IF r
            THEN StartHelper([s1 EXCEPT !.hist.okStages = @ \cup {"auth"}],
                             "write")
            ELSE PollExit(s1, "failed")
       ELSE IF r
            THEN IoDelay([s1 EXCEPT !.device_delays =
                                _adjust_operation_delay(@, Address, "auth"),
                            !.hist.ready = "reconnected"])
            ELSE IF s.ioTries < IoRetries
                 THEN IoAttempt([s1 EXCEPT !.device_delays =
                        _increase_operation_delay(@, Address, "auth")])
                 ELSE PollExit([s1 EXCEPT !.device_delays =
                        _increase_operation_delay(@, Address, "auth")],
                        "failed")
AuthReturnCountsPoll(s, r) ==
    LET s1 == [s EXCEPT !.ret.auth = <<r>>, !.authTries = 0,
                        !.acall = NoCall]
        ok == [s1 EXCEPT !.device_delays =
                    _adjust_operation_delay(@, Address, "auth")]
        ko == [s1 EXCEPT !.device_delays =
                    _increase_operation_delay(@, Address, "auth")]
    IN IF s.authCaller = "poll"
       THEN IF r
            THEN StartHelper([ok EXCEPT !.hist.okStages = @ \cup {"auth"}],
                             "write")
            ELSE PollExit(ko, "failed")
       ELSE IF r
            THEN IoDelay([ok EXCEPT !.hist.ready = "reconnected"])
            ELSE PollExit(ko, "failed")
AuthReturn(s, r) ==
    LET s1 == [s EXCEPT !.ret.auth = <<r>>, !.authTries = 0,
                        !.acall = NoCall]
    IN IF s.authCaller = "poll"
       THEN IF r
            THEN StartHelper([s1 EXCEPT !.hist.okStages = @ \cup {"auth"}],
                             "write")
            ELSE PollExit(s1, "failed")
       ELSE IF r
            THEN IoDelay([s1 EXCEPT !.device_delays =
                                _adjust_operation_delay(@, Address, "auth"),
                            !.hist.ready = "reconnected"])
            ELSE PollExit([s1 EXCEPT !.device_delays =
                    _increase_operation_delay(@, Address, "auth")], "failed")

\* retry_authentication.wrapper: what follows one call of func
\* (parser.py:53-64 and 79-91)
AttemptResult(s, r) ==
    IF r THEN AuthReturn(s, TRUE)
    ELSE IF s.authTries < AuthRetries
         THEN [s EXCEPT !.pc = "auth_pause",
                        !.acall.pauseLog = Append(@, AuthRetryDelay)]
         ELSE AuthReturn(s, FALSE)

\* parser.py:362-363
AuthNull(s) == AttemptResult(Assign(s, None), FALSE)

\* except Exception of authenticate (parser.py:357-363)
AuthExcept(s) ==
    IF Connected(s)
    THEN [Disconnect(s) EXCEPT !.pc = "auth_teardown"]
    ELSE AuthNull(s)

\* parser.py:341-347: the password write is issued
IssuePw(s) ==
    [s EXCEPT !.pc = "auth_write", !.acall.pwWrites = @ + 1]

\* parser.py:332-334
AuthCheckServices(s) ==
    IF s.clientServices THEN IssuePw(s)
    ELSE [s EXCEPT !.pc = "auth_discover"]

\* one call of the undecorated authenticate, up to its first await
\* (parser.py:318-322)
AuthAttempt(s) ==
    LET s1 == [s EXCEPT !.authTries = @ + 1]
    IN IF ~Connected(s1) THEN [s1 EXCEPT !.pc = "auth_wait_conn"]
       ELSE AuthCheckServices(s1)

StartAuth(s, caller) ==
    AuthAttempt([s EXCEPT !.authCaller = caller, !.authTries = 0,
                          !.acall = [NoCall EXCEPT !.dead = ~Connected(s)]])

(************************** _connect_to_device *****************************)
\* _connect_to_device returns v (a client or False) to its caller
ConnectReturn(s, v) ==
    LET s0 == [s EXCEPT !.ret.connect = <<v>>, !.connTries = 0]
    IN
    IF s.connCaller = "poll"
    THEN \* parser.py:491-502
         LET s1 == Assign(s0, v)
         IN IF ~Connected(s1)
            THEN PollExit(s1, "failed")
            ELSE StartAuth([s1 EXCEPT !.hist.okStages = @ \cup {"connect"},
                                      !.hist.started = @ \cup {"auth"}],
                           "poll")
    ELSE IF s.connCaller = "raa"
    THEN \* parser.py:406-419
         LET s1 == Assign(s0, v)
         IN IF ~Connected(s1)
            THEN PollExit([s1 EXCEPT !.device_delays =
                    _increase_operation_delay(@, Address, "connect")],
                    "failed")
            ELSE LET s2 == [s1 EXCEPT !.device_delays =
                               _adjust_operation_delay(@, Address, "connect")]
                 IN IF _get_operation_delay(s2.device_delays, Address,
                                            "auth") > 0
                    THEN [s2 EXCEPT !.pc = "raa_auth_sleep"]
                    ELSE StartAuth(s2, "raa")
    ELSE \* parser.py:325-326: the result is dropped, sleep(0.5) follows
         [s0 EXCEPT !.pc = "auth_reconnect_sleep"]

\* _connect_to_device raises e ("BleakError" or "Exception") to its caller
ConnectRaiseNoCount(s, e) ==
    LET s0 == [s EXCEPT !.ret.connect = <<e>>, !.connTries = 0]
    IN
    IF s.connCaller = "poll"
    THEN PollExit(s0, IF e = "BleakError" THEN "failed" ELSE "raised")
    ELSE IF s.connCaller = "raa"
    THEN PollExit(s0, "failed")
    ELSE AuthExcept(s0)
ConnectRaise(s, e) ==
    LET s0 == [s EXCEPT !.ret.connect = <<e>>, !.connTries = 0]
    IN
    IF s.connCaller = "poll"
    THEN \* parser.py:614-622
         PollExit(s0, IF e = "BleakError" THEN "failed" ELSE "raised")
    ELSE IF s.connCaller = "raa"
    THEN \* parser.py:428-431
         PollExit([s0 EXCEPT !.device_delays =
                    _increase_operation_delay(@, Address, "connect")],
                  "failed")
    ELSE AuthExcept(s0)

(******************************* actions ***********************************)
\* the two credential checks of async_poll (parser.py:481, 485)
PasswordConfiguredNotNone(s) == s.password # "none"
PasswordConfigured(s) == s.password = "set"

\* async_poll is called (parser.py:481-491)
PollStart ==
    /\ pc \in {"idle", "done"}
    /\ LET s == [St EXCEPT !.outcome = "none", !.connCaller = "none",
                           !.authCaller = "none", !.helper = "none",
                           !.connTries = 0, !.authTries = 0, !.ioTries = 0,
                           !.hist = NoHist, !.acall = NoCall]
       IN IF ~PasswordConfigured(s)
          THEN Set([s EXCEPT !.pc = "done", !.outcome = "skipped"])
          ELSE Set(StartConnect([s EXCEPT !.hist.started = {"connect"}],
                                "poll"))

\* an establish_connection call of _connect_to_device completes
\* (parser.py:270-292): with a client id, or raising e; the decorator
\* retry_bluetooth_connection_error re-runs the body after a BleakError
\* until ConnectAttempts attempts were made
ConnectResult ==
    /\ pc = "conn_try"
    /\ \E o \in {"client", "BleakError", "Exception"} :
       \E svc \in IF o = "client" THEN BOOLEAN ELSE {FALSE} :
        LET \* parser.py:274: self._client = await establish_connection(...)
            s == [St EXCEPT !.client = Client, !.is_connected = TRUE,
                            !.clientServices = svc,
                            !.hist.orphan = @ \/ Connected(St)]
            r == IF o = "client"
                 THEN IF svc THEN ConnectReturn(s, Client)
                      ELSE [s EXCEPT !.pc = "conn_services_wait"]
                 ELSE IF o = "BleakError" /\ connTries < ConnectAttempts
                      THEN [St EXCEPT !.connTries = @ + 1]
                      ELSE ConnectRaise(St, o)
        IN WithinBounds(r) /\ Set(r)

\* the second services check of _connect_to_device (parser.py:290-300)
RecheckResultClient(s, svc) == s.client
RecheckResult(s, svc) == IF svc THEN s.client ELSE False

\* asyncio.sleep(2) of _connect_to_device is over (parser.py:287-300)
ConnectServicesRecheck ==
    /\ pc = "conn_services_wait"
    /\ \E svc \in BOOLEAN :
        LET s == [St EXCEPT !.clientServices = svc]
            r == IF St.client = None
                 THEN \* self._client.services raises AttributeError, which
                      \* the decorator retries like a BleakError
                      IF connTries < ConnectAttempts
                      THEN [St EXCEPT !.pc = "conn_try", !.connTries = @ + 1]
                      ELSE ConnectRaise(St, "Exception")
                 ELSE ConnectReturn(s, RecheckResult(s, svc))
        IN WithinBounds(r) /\ Set(r)

\* an asyncio.sleep inside authenticate or its wrapper is over:
\* sleep(1) of parser.py:322, sleep(0.5) of :326, sleep(1) of :335 and
\* the wrapper's sleep(delay) of :63
AuthSleepDone ==
    /\ pc \in {"auth_wait_conn", "auth_reconnect_sleep",
               "auth_discover_sleep", "auth_pause"}
    /\ \E svc \in BOOLEAN :
        LET s == [St EXCEPT !.clientServices = svc]
            r == CASE pc = "auth_wait_conn" ->        \* parser.py:323-332
                        IF Connected(St) THEN AuthCheckServices(St)
                        ELSE IF HasBleDevice
                             THEN StartConnect(
                                    [St EXCEPT !.acall.connects = @ + 1],
                                    "auth")
                             ELSE AuthExcept(St)
                   [] pc = "auth_reconnect_sleep" ->  \* parser.py:327-332
                        IF ~Connected(St) THEN AttemptResult(St, FALSE)
                        ELSE AuthCheckServices(St)
                   [] pc = "auth_discover_sleep" ->   \* parser.py:336-347
                        IF St.client = None THEN AuthExcept(St)
                        ELSE IF svc THEN IssuePw(s)
                        ELSE AttemptResult(s, FALSE)
                   [] OTHER ->                        \* parser.py:51-53
                        AuthAttempt(St)
        IN WithinBounds(r) /\ Set(r)

\* a GATT call of authenticate completes: discover_services
\* (parser.py:334) or the password write (parser.py:342-355)
AuthGattResult ==
    /\ pc \in {"auth_discover", "auth_write"}
    /\ \E o \in {"ok", "connection status", "reset signature", "BleakError",
                 "Exception"} :
        LET s == [St EXCEPT !.ret.gatt =
                    <<[stage |-> "auth",
                       raised |-> IF o = "ok" THEN "none" ELSE o]>>]
            r == IF pc = "auth_discover"
                 THEN IF o = "ok"
                      THEN [s EXCEPT !.pc = "auth_discover_sleep"]
                      ELSE AuthExcept(s)
                 ELSE IF o = "ok" THEN AttemptResult(s, TRUE)
                 ELSE IF o = "connection status"
                      THEN AttemptResult(s, FALSE)
                      ELSE AuthExcept(s)
        IN /\ o = "ok" => Connected(St)
           /\ WithinBounds(r)
           /\ Set(r)

\* await self._client.disconnect() of authenticate's except clause is
\* over (parser.py:361-363)
AuthTeardownDone ==
    /\ pc = "auth_teardown"
    /\ WithinBounds(AuthNull(St))
    /\ Set(AuthNull(St))

\* an adaptive-delay sleep is over (parser.py:377, 403, 417, 445)
BackoffSleepDone ==
    /\ pc \in {"io_sleep", "raa_conn_sleep", "raa_auth_sleep"}
    /\ Set(CASE pc = "io_sleep" -> IssueIo(St)
             [] pc = "raa_conn_sleep" -> StartConnect(St, "raa")
             [] OTHER -> StartAuth(St, "raa"))

\* what async_poll does with a status payload (parser.py:522-612)
Decode(s, payload) ==
    IF payload = "empty" THEN PollExit(s, "failed")
    ELSE LET s1 == [s EXCEPT !.hist.okStages = @ \cup {"read"},
                             !.hist.started = @ \cup {"decode"}]
         IN IF payload = "malformed"
            THEN PollExit(s1, "raised")
            ELSE PollExit([s1 EXCEPT !.hist.okStages = @ \cup {"decode"}],
                          "ok")

\* except BleakError of the helpers (parser.py:383, 451) catches every
\* transport error, whatever its message
IsBleakErrorButReset(o) == o \in {"BleakError", "connection status"}
IsBleakErrorOrAny(o) ==
    o \in {"BleakError", "connection status", "reset signature", "Exception"}
IsBleakError(o) ==
    o \in {"BleakError", "connection status", "reset signature"}

\* the GATT write or read of a helper completes
\* (parser.py:379-395, 447-463, 512-525)
IoResult ==
    /\ pc = "io_op"
    /\ \E o \in {"empty", "malformed", "valid", "BleakError",
                 "connection status", "reset signature", "Exception"} :
        LET s0 == [St EXCEPT !.ret.gatt =
                    <<[stage |-> St.helper,
                       raised |-> IF o \in {"empty", "malformed", "valid"}
                                  THEN "none" ELSE o]>>]
            s == [s0 EXCEPT !.device_delays =
                        _adjust_operation_delay(@, Address,
                                                Bucket(St.helper))]
            f == IF CountsFailure(ioTries)
                 THEN [s0 EXCEPT !.device_delays =
                        _increase_operation_delay(@, Address,
                                                  Bucket(St.helper))]
                 ELSE s0
            r == CASE IsBleakError(o) ->
                        IF LoopContinues(ioTries)
                        THEN IoAttempt(f)
                        ELSE PollExit(f, "failed")
                   [] o = "Exception" -> PollExit(s0, "raised")
                   [] OTHER ->
                        IF helper = "write"
                        THEN IF s.client = None THEN PollExit(s, "raised")
                        ELSE StartHelper(
                                [s EXCEPT !.hist.okStages = @ \cup {"write"}],
                                "read")
                        ELSE Decode(s, o)
        IN /\ o \in {"empty", "malformed", "valid"} => Connected(St)
           /\ WithinBounds(r)
           /\ Set(r)

\* finally clause of async_poll (parser.py:623-631)
CleanupKeepsClient(s) == [s EXCEPT !.event = FALSE, !.pc = "done"]
CleanupResetsDelays(s) ==
    [Assign(s, None) EXCEPT !.event = FALSE, !.pc = "done",
        !.device_delays = [a \in Addresses |-> [k \in Kinds |-> NoEntry]]]
Cleanup(s) == [Assign(s, None) EXCEPT !.event = FALSE, !.pc = "done"]

Finally ==
    /\ pc = "finally"
    /\ IF Connected(St)
       THEN Set([Disconnect(St) EXCEPT !.pc = "finally_disconnect"])
       ELSE Set(Cleanup(St))

FinallyDisconnected ==
    /\ pc = "finally_disconnect"
    /\ Set(Cleanup(St))

\* the radio link of an open connection drops: the current client's, or
\* that of the connections self._client no longer refers to
LinkDrop ==
    \E c \in {"client", "orphan"} :
        /\ IF c = "client" THEN is_connected ELSE hist.orphan
        /\ Set(IF c = "client" THEN [St EXCEPT !.is_connected = FALSE]
               ELSE [St EXCEPT !.hist.orphan = FALSE])

Next ==
    \/ PollStart
    \/ ConnectResult
    \/ ConnectServicesRecheck
    \/ AuthSleepDone
    \/ AuthGattResult
    \/ AuthTeardownDone
    \/ BackoffSleepDone
    \/ IoResult
    \/ Finally
    \/ FinallyDisconnected
    \/ LinkDrop

Spec == Init /\ [][Next]_vars

\* every await of a running poll returns: the event loop resumes the
\* coroutine when the transport call or the sleep it awaits completes
PollStep ==
    \/ ConnectResult
    \/ ConnectServicesRecheck
    \/ AuthSleepDone
    \/ AuthGattResult
    \/ AuthTeardownDone
    \/ BackoffSleepDone
    \/ IoResult
    \/ Finally
    \/ FinallyDisconnected

\* one poll of a session, followed to its end: the tracker is as an
\* earlier poll of the session can leave it (nothing recorded; a write
\* that failed once and then succeeded; a read that failed 3 times; a
\* write failure followed by a failed reconnect)
NoDelays == [a \in Addresses |-> [k \in Kinds |-> NoEntry]]
TrackerAtPollStart ==
    { NoDelays,
      _adjust_operation_delay(
        _increase_operation_delay(NoDelays, Address, "write"),
        Address, "write"),
      _increase_operation_delay(
        _increase_operation_delay(NoDelays, Address, "read"),
        Address, "read"),
      _increase_operation_delay(
        _increase_operation_delay(NoDelays, Address, "write"),
        Address, "connect") }

InitLive ==
    /\ password \in {"none", "empty", "set"}
    /\ client = None
    /\ clientServices = FALSE
    /\ is_connected = FALSE
    /\ event = FALSE
    /\ device_delays \in IF password = "set" THEN TrackerAtPollStart
                         ELSE {NoDelays}
    /\ pc = "idle"
    /\ outcome = "none"
    /\ connCaller = "none"
    /\ authCaller = "none"
    /\ helper = "none"
    /\ connTries = 0
    /\ authTries = 0
    /\ ioTries = 0
    /\ hist = NoHist
    /\ acall = NoCall
    /\ ret = NoRet
    /\ pcE = "idle"
    /\ consumer = NoConsumer
    /\ notify = NoNotify
    /\ arg = NoArg
    /\ result = <<>>

NextLive ==
    \/ pc = "idle" /\ PollStart
    \/ PollStep
    \/ LinkDrop

SpecLive == InitLive /\ [][NextLive]_vars /\ WF_vars(PollStep)

(************** the reboot button shares the session object ****************)
\* MicroAirEasyTouchRebootButton.async_press (button.py:50-58) calls
\* reboot_device on the object the coordinator polls (__init__.py:41-72);
\* nothing serialises the two coroutines
ButtonPress ==
    /\ pcE = "idle"
    /\ Set([St EXCEPT !.pcE = "connect"])

\* reboot_device: connect, authenticate, write the reset command, then
\* tear the connection down
RebootStep ==
    /\ pcE \in {"connect", "auth"}
    /\ \E ok \in BOOLEAN :
        /\ (ok /\ pcE # "connect") => Connected(St)
        /\ Set(CASE pcE = "connect" ->
                    IF ok
                    THEN [St EXCEPT !.client = Client, !.is_connected = TRUE,
                                    !.clientServices = TRUE,
                                    !.hist.orphan = @ \/ Connected(St),
                                    !.pcE = "auth"]
                    ELSE [St EXCEPT !.pcE = "cleanup"]
               [] OTHER ->
                    [St EXCEPT !.pcE = IF ok THEN "write" ELSE "cleanup"])

\* reboot_device: the write of the reset command completes; a transport
\* error of the disconnect-during-reset signature is reported as true,
\* any other transport error as false
RebootWrite ==
    /\ pcE = "write"
    /\ \E o \in {"ok", "reset signature", "BleakError"} :
        /\ o = "ok" => Connected(St)
        /\ Set([St EXCEPT
                !.pcE = "cleanup",
                !.is_connected = IF o = "reset signature" THEN FALSE ELSE @,
                !.ret.reboot =
                    <<[raised |-> IF o = "ok" THEN "none" ELSE o,
                       reported |-> o \in {"ok", "reset signature"}]>>])

RebootCleanup ==
    /\ pcE = "cleanup"
    /\ Set([Assign(Disconnect(St), None) EXCEPT !.pcE = "idle"])

NextConc ==
    \/ Next
    \/ ButtonPress
    \/ RebootStep
    \/ RebootWrite
    \/ RebootCleanup

SpecConc == Init /\ [][NextConc]_vars

\* the button pressed between polls: reboot_device and async_poll one
\* after the other on the same session
NextReboot ==
    \/ (pcE = "idle" /\ Next)
    \/ (pc \in {"idle", "done"} /\ ButtonPress)
    \/ RebootStep
    \/ RebootWrite
    \/ RebootCleanup
    \/ LinkDrop

SpecReboot == Init /\ [][NextReboot]_vars

(******************* the delay tracker driven on its own *******************)
\* the (address, operation) entries the calls below are made on
TrackedPairs == {<<"a1", "read">>, <<"a1", "write">>, <<"a2", "read">>}

\* run: how many on_failure calls in a row were made on this entry since
\* it was absent (0 when that is not known from the previous call)
FailureRun(a, k) ==
    IF ~device_delays[a][k].present THEN 1
    ELSE IF /\ arg.fn = "_increase_operation_delay"
            /\ arg.address = a /\ arg.operation = k /\ arg.run > 0
         THEN arg.run + 1
         ELSE 0

\* _increase_operation_delay(address, operation) is called; it returns
\* current['delay'] (parser.py:173)
OnFailure ==
    \E p \in TrackedPairs :
        LET dd == _increase_operation_delay(device_delays, p[1], p[2])
        IN /\ dd[p[1]][p[2]].failures <= MaxStreak
           /\ Set([St EXCEPT
                    !.device_delays = dd,
                    !.arg = [fn |-> "_increase_operation_delay",
                             address |-> p[1], operation |-> p[2],
                             before |-> device_delays[p[1]][p[2]],
                             run |-> FailureRun(p[1], p[2])],
                    !.result = <<dd[p[1]][p[2]].delay>>])

\* _adjust_operation_delay(address, operation) is called; it returns None
OnSuccess ==
    \E p \in TrackedPairs :
        LET dd == _adjust_operation_delay(device_delays, p[1], p[2])
        IN /\ dd[p[1]][p[2]].failures <= MaxStreak
           /\ Set([St EXCEPT
                    !.device_delays = dd,
                    !.arg = [fn |-> "_adjust_operation_delay",
                             address |-> p[1], operation |-> p[2],
                             before |-> device_delays[p[1]][p[2]],
                             run |-> 0],
                    !.result = <<>>])

NextTracker ==
    \/ OnFailure
    \/ OnSuccess

SpecTracker == Init /\ [][NextTracker]_vars

\* one tracker call on any address and operation, made on a tracker
\* that earlier calls left: every recorded entry is as n on_failure
\* calls followed by m on_success calls leave it
RECURSIVE AfterFailures(_, _)
AfterFailures(dd, n) ==
    IF n = 0 THEN dd
    ELSE AfterFailures(_increase_operation_delay(dd, Address, "write"), n - 1)
RECURSIVE AfterSuccesses(_, _)
AfterSuccesses(dd, m) ==
    IF m = 0 THEN dd
    ELSE AfterSuccesses(_adjust_operation_delay(dd, Address, "write"), m - 1)

EntryStates ==
    {AfterSuccesses(AfterFailures(NoDelays, n), m)[Address]["write"] :
        n \in 0..MaxFailures, m \in 0..MaxFailures} \ {NoEntry}

\* the tracker whose recorded entries are those of ps, with the values f
TrackerWith(ps, f) ==
    [a \in Addresses |-> [k \in Kinds |->
        IF <<a, k>> \in ps THEN f[<<a, k>>] ELSE NoEntry]]

InitTrackerAll ==
    /\ password = "set"
    /\ client = None
    /\ clientServices = FALSE
    /\ is_connected = FALSE
    /\ event = FALSE
    /\ \E ps \in {q \in SUBSET (Addresses \X Kinds) :
                        Cardinality(q) <= MaxEntries} :
       \E f \in [ps -> EntryStates] :
            device_delays = TrackerWith(ps, f)
    /\ pc = "idle"
    /\ outcome = "none"
    /\ connCaller = "none"
    /\ authCaller = "none"
    /\ helper = "none"
    /\ connTries = 0
    /\ authTries = 0
    /\ ioTries = 0
    /\ hist = NoHist
    /\ acall = NoCall
    /\ ret = NoRet
    /\ pcE = "idle"
    /\ consumer = NoConsumer
    /\ notify = NoNotify
    /\ arg = NoArg
    /\ result = <<>>

TrackerCall ==
    /\ arg = NoArg
    /\ \E fn \in {"_get_operation_delay", "_increase_operation_delay",
                  "_adjust_operation_delay"} :
       \E a \in Addresses : \E k \in Kinds :
        LET dd == CASE fn = "_get_operation_delay" ->
                        _get_operation_delay_state(device_delays, a, k)
                    [] fn = "_increase_operation_delay" ->
                        _increase_operation_delay(device_delays, a, k)
                    [] OTHER ->
                        _adjust_operation_delay(device_delays, a, k)
            r == CASE fn = "_get_operation_delay" ->
                        <<_get_operation_delay(device_delays, a, k)>>
                   [] fn = "_increase_operation_delay" -> <<dd[a][k].delay>>
                   [] OTHER -> <<>>
        IN Set([St EXCEPT !.device_delays = dd,
                          !.arg = [fn |-> fn, address |-> a,
                                   operation |-> k,
                                   before |-> device_delays[a][k],
                                   run |-> 0],
                          !.result = r])

NextTrackerAll == TrackerCall

SpecTrackerAll == InitTrackerAll /\ [][NextTrackerAll]_vars

(****************************** poll_needed ********************************)
\* poll_needed(service_info, last_poll) read at clock time current_time
\* (parser.py:203-214); last_poll is <<>> for None, else <<t>>
poll_needed_or(connectable, last_poll, current_time, interval) ==
    IF last_poll = <<>> THEN TRUE
    ELSE connectable \/ current_time - last_poll[1] > interval
poll_needed(connectable, last_poll, current_time, interval) ==
    IF last_poll = <<>> THEN TRUE
    ELSE LET time_since_last_poll == current_time - last_poll[1]
         IN connectable /\ time_since_last_poll > interval

PollNeededInputs ==
    [fn : {"poll_needed"}, connectable : BOOLEAN,
     last_poll : {<<>>} \cup {<<x>> : x \in 0..MaxTime},
     current_time : 0..MaxTime, UPDATE_INTERVAL : 1..MaxInterval]

InitPollNeeded ==
    /\ InitSession
    /\ password = "set"
    /\ arg \in PollNeededInputs
    /\ result = <<>>

PollNeededCall ==
    /\ arg.fn = "poll_needed"
    /\ result = <<>>
    /\ Set([St EXCEPT !.result =
            <<poll_needed(arg.connectable, arg.last_poll, arg.current_time,
                          arg.UPDATE_INTERVAL)>>])

SpecPollNeeded == InitPollNeeded /\ [][PollNeededCall]_vars

(******************************** decrypt **********************************)
\* the tables of decrypt (parser.py:232-233)
modes ==
    (0 :> "off") @@ (5 :> "heat_on") @@ (4 :> "heat") @@ (3 :> "cool_on")
    @@ (2 :> "cool") @@ (1 :> "fan") @@ (11 :> "auto")
fan_modes ==
    (0 :> "off") @@ (1 :> "manualL") @@ (2 :> "manualH")
    @@ (65 :> "cycledL") @@ (66 :> "cycledH") @@ (128 :> "full auto")

\* const.py:24-36, by code
FAN_MODES_FULL == fan_modes
FAN_MODES_FAN_ONLY == (0 :> "off") @@ (1 :> "low") @@ (2 :> "high")

\* a dict without keys
Empty == [x \in {} |-> TRUE]

\* if code in table: hr_status[key] = table[code] (parser.py:258-267)
LookupDefaultOff(key, table, code) ==
    key :> (IF code \in DOMAIN table THEN table[code] ELSE "off")
Lookup(key, table, code) ==
    IF code \in DOMAIN table THEN key :> table[code] ELSE Empty

\* parser.py:253-256
FlagsSwapped(param) ==
    (IF 15 \in param THEN "off" :> TRUE ELSE Empty)
    @@ (IF 7 \in param THEN "on" :> TRUE ELSE Empty)
Flags(param) ==
    (IF 7 \in param THEN "off" :> TRUE ELSE Empty)
    @@ (IF 15 \in param THEN "on" :> TRUE ELSE Empty)

\* decrypt(data) on a payload that parses: status is the parsed object,
\* status.Z_sts its Z_sts['0'] array (info[i] of the code is info[i + 1])
decrypt(status) ==
    LET info == status.Z_sts
        param == status.PRM
    IN ("SN" :> status.SN)
       @@ ("autoHeat_sp" :> info[1])
       @@ ("autoCool_sp" :> info[2])
       @@ ("cool_sp" :> info[3])
       @@ ("heat_sp" :> info[4])
       @@ ("dry_sp" :> info[5])
       @@ ("u5" :> info[6])
       @@ ("fan_mode_num" :> info[7])
       @@ ("cool_mode_num" :> info[8])
       @@ ("u8" :> info[9])
       @@ ("u9" :> info[10])
       @@ ("mode_num" :> info[11])
       @@ ("heat_mode_num" :> info[12])
       @@ ("facePlateTemperature" :> info[13])
       @@ ("u13" :> info[14])
       @@ ("u14" :> info[15])
       @@ ("current_mode_num" :> info[16])
       @@ Flags(param)
       @@ Lookup("current_mode", modes, info[16])
       @@ Lookup("mode", modes, info[11])
       @@ Lookup("fan_mode", fan_modes, info[7])
       @@ Lookup("cool_mode", fan_modes, info[8])
       @@ Lookup("heat_mode", fan_modes, info[12])

\* Z_sts arrays: the documented example and one whose positions all differ
Zsts(v, f6, f7, f9, f11, m, cm) ==
    IF v = 0
    THEN <<60, 75, 72, 68, 65, 0, f6, f7, 0, f9, m, f11, 73, 0, 0, cm>>
    ELSE <<61, 76, 71, 67, 64, 51, f6, f7, 58, f9, m, f11, 74, 53, 54, cm>>

ModeCodes == {0, 1, 2, 3, 4, 5, 11, 6, 99}

DecryptInputs ==
    {[fn |-> "decrypt",
      status |-> [SN |-> "sn", Z_sts |-> Zsts(v, f6, f7, f9, f11, m, cm),
                  PRM |-> prm]] :
        v \in {0, 1}, f6 \in {0, 1, 2, 7}, f7 \in {0, 65, 128, 7},
        f9 \in {0, 128}, f11 \in {0, 66}, m \in ModeCodes,
        cm \in ModeCodes, prm \in SUBSET {3, 7, 15}}

InitDecrypt ==
    /\ InitSession
    /\ password = "set"
    /\ arg \in DecryptInputs
    /\ result = <<>>

DecryptCall ==
    /\ arg.fn = "decrypt"
    /\ result = <<>>
    /\ Set([St EXCEPT !.result = <<decrypt(arg.status)>>])

SpecDecrypt == InitDecrypt /\ [][DecryptCall]_vars

(******************* decrypt on payloads that may be incomplete ************)
\* the parsed object as decrypt(status) above takes it
Parsed(status) ==
    [SN |-> status["SN"], Z_sts |-> status["Z_sts"]["0"],
     PRM |-> status["PRM"]]

\* the exception the subscripts of decrypt raise on a parsed object, in
\* the order the code evaluates them: status['Z_sts']['0'] (230),
\* status['PRM'] (231), status['SN'] (235), info[0..15] (236-251)
decrypt_raises(status) ==
    IF "Z_sts" \notin DOMAIN status THEN "KeyError"
    ELSE IF "0" \notin DOMAIN status["Z_sts"] THEN "KeyError"
    ELSE IF "PRM" \notin DOMAIN status THEN "KeyError"
    ELSE IF "SN" \notin DOMAIN status THEN "KeyError"
    ELSE IF Len(status["Z_sts"]["0"]) < 16 THEN "IndexError"
    ELSE "none"

\* what a call of decrypt comes to: an exception or the returned dict
decrypt_outcome_sn_default(status) ==
    LET filled == status @@ ("SN" :> "")
    IN IF decrypt_raises(filled) # "none"
       THEN [raised |-> decrypt_raises(filled)]
       ELSE [returned |-> decrypt(Parsed(filled))]
decrypt_outcome(status) ==
    IF decrypt_raises(status) # "none"
    THEN [raised |-> decrypt_raises(status)]
    ELSE [returned |-> decrypt(Parsed(status))]

\* zone-0 arrays of 0, 15, 16 and 17 entries
ArrayLens == {0, 15, 16, 17}
RawArray(n) == SubSeq(Zsts(0, 1, 0, 0, 0, 2, 3) \o <<0>>, 1, n)

\* parsed objects with any of the keys SN, Z_sts, PRM and zone '0' missing
RawStatus(keys, zones, n, prm) ==
    [k \in keys |->
        CASE k = "SN" -> "sn"
          [] k = "Z_sts" -> [z \in zones |-> RawArray(n)]
          [] k = "PRM" -> prm]

DecryptRawInputs ==
    {[fn |-> "decrypt", status |-> RawStatus(keys, zones, n, prm)] :
        keys \in SUBSET {"SN", "Z_sts", "PRM"}, zones \in {{}, {"0"}},
        n \in ArrayLens, prm \in SUBSET {3, 7, 15}}

InitDecryptRaw ==
    /\ InitSession
    /\ password = "set"
    /\ arg \in DecryptRawInputs
    /\ result = <<>>

DecryptRawCall ==
    /\ arg.fn = "decrypt"
    /\ result = <<>>
    /\ Set([St EXCEPT !.result = <<decrypt_outcome(arg.status)>>])

SpecDecryptRaw == InitDecryptRaw /\ [][DecryptRawCall]_vars

\* the payloads the fetches below read
CodecPayloads ==
    {[SN |-> "sn", Z_sts |-> Zsts(v, 1, 0, 0, 0, m, 3), PRM |-> {7}] :
        v \in {0, 1}, m \in {2, 99}}

(************************ the consumers of a fetch **************************)
\* decrypted_status.get(key, default)
Get(rec, key, default) == IF key \in DOMAIN rec THEN rec[key] ELSE default

\* the update_sensor calls of a poll that decoded a record
\* (parser.py:527-609), as key :> native_value
SensorValues(rec) ==
    ("face_plate_temperature" :> Get(rec, "facePlateTemperature", 0))
    @@ ("mode" :> Get(rec, "mode", "unknown"))
    @@ ("current_mode" :> Get(rec, "current_mode", "unknown"))
    @@ ("fan_mode" :> Get(rec, "fan_mode", "unknown"))
    @@ ("autoHeat_sp" :> Get(rec, "autoHeat_sp", 0))
    @@ ("autoCool_sp" :> Get(rec, "autoCool_sp", 0))
    @@ ("cool_sp" :> Get(rec, "cool_sp", 0))
    @@ ("heat_sp" :> Get(rec, "heat_sp", 0))
    @@ ("dry_sp" :> Get(rec, "dry_sp", 0))

\* the sensor entity followed here is the one of key cool_sp
sensor_key == "cool_sp"

\* _handle_coordinator_update (sensor.py:228-245): None without
\* coordinator data, the value of the entity's key when the data has it,
\* else the value the entity had
HandleCoordinatorUpdate(c) ==
    IF c.data = <<>> THEN [c EXCEPT !.native_value = <<>>]
    ELSE IF sensor_key \in DOMAIN c.data[1]
         THEN [c EXCEPT !.native_value = <<c.data[1][sensor_key]>>]
         ELSE c

\* how async_poll can end for the coordinator: it decoded payload p and
\* returned, it returned self._finish_update() without decoding
\* (parser.py:482-524, 614-619), or it raised (620-622)
PollOutcomes ==
    {[outcome |-> "decoded", payload |-> <<p>>] : p \in CodecPayloads}
    \cup {[outcome |-> "failed", payload |-> <<>>],
          [outcome |-> "raised", payload |-> <<>>]}

\* update_sensor keeps its values on the data object and _finish_update
\* returns all values the object holds, so a poll that sets none returns
\* those of the polls before it
FinishUpdate(c) == c.sensor_values

\* one coordinator refresh: _async_update_data (__init__.py:44-58) with
\* the async_poll it awaits, then the entity's listener
CoordinatorRefresh ==
    \E device_found \in BOOLEAN, o \in PollOutcomes :
        LET c == consumer
            polled ==
                IF o.outcome = "decoded"
                THEN [c EXCEPT !.sensor_values =
                                    SensorValues(decrypt(o.payload[1]))
                                    @@ c.sensor_values,
                               !.good.poll = o.payload]
                ELSE c
            c1 == CASE ~device_found ->
                        [c EXCEPT !.data = <<>>,
                                  !.last_update_success = TRUE,
                                  !.fetch = [by |-> "poll",
                                             outcome |-> "no_device"]]
                   [] device_found /\ o.outcome = "raised" ->
                        [c EXCEPT !.last_update_success = FALSE,
                                  !.fetch = [by |-> "poll",
                                             outcome |-> "raised"]]
                   [] OTHER ->
                        [polled EXCEPT
                            !.data = <<FinishUpdate(polled)>>,
                            !.last_update_success = TRUE,
                            !.fetch = [by |-> "poll",
                                       outcome |-> o.outcome]]
        IN /\ pc = "idle"
           /\ Set([St EXCEPT !.consumer = HandleCoordinatorUpdate(c1)])

\* how the fetch of the climate entity can go: no BLE device, send_command
\* false, send_command raising, an empty read, a payload read and decoded
ClimateOutcomes ==
    {[outcome |-> "decoded", payload |-> <<p>>] : p \in CodecPayloads}
    \cup {[outcome |-> o, payload |-> <<>>] :
            o \in {"no_device", "not_sent", "no_payload", "raised"}}

\* _async_fetch_initial_state (climate.py:132-156)
ClimateFetch ==
    \E o \in ClimateOutcomes :
        /\ pc = "idle"
        /\ Set([St EXCEPT
                !.consumer.state =
                    IF o.outcome = "decoded" THEN decrypt(o.payload[1])
                    ELSE Empty,
                !.consumer.good.climate = o.payload,
                !.consumer.fetch = [by |-> "climate",
                                    outcome |-> o.outcome]])

NextConsumer ==
    \/ CoordinatorRefresh
    \/ ClimateFetch

SpecConsumer == Init /\ [][NextConsumer]_vars

(************ the earlier poll variant, which waits for a notification *****)
\* asyncio.wait_for(self._event.wait(), 15) (MicroAirEasyTouch/parser.py:230)
WaitTimeout == 15

\* a return or raise inside the try block: the outer finally runs next
\* (MicroAirEasyTouch/parser.py:241-247)
NotifyExit(s, out) == [s EXCEPT !.pc = "n_finally", !.outcome = out]

\* async_poll is called (MicroAirEasyTouch/parser.py:171-186)
NotifyPollStart ==
    /\ pc \in {"idle", "done"}
    /\ Set(IF password # "set"
           THEN [St EXCEPT !.pc = "done", !.outcome = "skipped",
                           !.notify = NoNotify]
           ELSE [St EXCEPT !.pc = "n_connect", !.outcome = "none",
                           !.notify = NoNotify])

\* establish_connection returns a client or raises, outside the try
\* block (MicroAirEasyTouch/parser.py:184-186)
NotifyConnectResult ==
    /\ pc = "n_connect"
    /\ \E ok \in BOOLEAN :
        Set(IF ok
            THEN [St EXCEPT !.client = Client, !.is_connected = TRUE,
                            !.clientServices = TRUE, !.pc = "n_auth"]
            ELSE [St EXCEPT !.pc = "done", !.outcome = "raised"])

\* the wait starts: event.wait() returns at once on a set event
StartWait(s) ==
    IF s.event
    THEN [s EXCEPT !.pc = "n_stop_notify", !.notify.ended = "notified"]
    ELSE [s EXCEPT !.pc = "n_wait"]

\* the password write of authenticate, the status read and the command
\* write complete (MicroAirEasyTouch/parser.py:152-169, 190-226)
NotifyGattResult ==
    /\ pc \in {"n_auth", "n_read", "n_write"}
    /\ \E o \in {"ok", "unknown mode", "error"} :
        /\ o # "error" => Connected(St)
        /\ o = "unknown mode" => pc = "n_read"
        /\ Set(CASE pc = "n_auth" ->
                    IF o = "ok" THEN [St EXCEPT !.pc = "n_read"]
                    ELSE NotifyExit(St, "failed")
               [] pc = "n_read" ->
                    IF o = "error" THEN NotifyExit(St, "raised")
                    ELSE [St EXCEPT !.pc = "n_write",
                                    !.notify.payload = (o = "ok")]
               [] OTHER ->
                    IF o = "error" \/ ~notify.payload
                    THEN NotifyExit(St, "raised")
                    ELSE StartWait(St))

\* a time-unit of the wait goes by without the event being set
NotifyWaitTick ==
    /\ pc = "n_wait"
    /\ ~event
    /\ notify.elapsed < WaitTimeout
    /\ Set([St EXCEPT !.notify.elapsed = @ + 1])

\* the wait ends: the event was set, or wait_for raises TimeoutError,
\* which is caught (MicroAirEasyTouch/parser.py:229-235)
NotifyWaitOver ==
    /\ pc = "n_wait"
    /\ event \/ notify.elapsed = WaitTimeout
    /\ Set([St EXCEPT !.pc = "n_stop_notify",
                      !.notify.ended = IF event THEN "notified"
                                       ELSE "timeout"])

\* the transport calls notification_handler(_, data) on an open link
\* (MicroAirEasyTouch/parser.py:81-107): data[15] raises IndexError on
\* data of fewer than 16 bytes, before the event is set
notification_handler ==
    /\ is_connected
    /\ pc \in {"n_auth", "n_read", "n_write", "n_wait"}
    /\ \E long \in BOOLEAN :
        Set(IF long THEN [St EXCEPT !.event = TRUE] ELSE St)

\* the finally clause of the wait: stop_notify, then disconnect, then
\* return self._finish_update() (MicroAirEasyTouch/parser.py:235-239)
NotifyTeardown ==
    /\ pc \in {"n_stop_notify", "n_disconnect"}
    /\ \E ok \in BOOLEAN :
        /\ (ok /\ pc = "n_stop_notify") => Connected(St)
        /\ (~ok) => pc = "n_stop_notify"
        /\ Set(IF pc = "n_stop_notify"
               THEN IF ok THEN [St EXCEPT !.pc = "n_disconnect"]
                    ELSE NotifyExit([St EXCEPT !.notify.raised = TRUE],
                                    "raised")
               ELSE NotifyExit(Disconnect(St), "ok"))

\* the outer finally (MicroAirEasyTouch/parser.py:244-247); self._client
\* is the client object here
NotifyFinally ==
    /\ pc = "n_finally"
    /\ Set([Disconnect(St) EXCEPT !.event = FALSE, !.pc = "done"])

NextNotify ==
    \/ NotifyPollStart
    \/ NotifyConnectResult
    \/ NotifyGattResult
    \/ NotifyWaitTick
    \/ NotifyWaitOver
    \/ notification_handler
    \/ NotifyTeardown
    \/ NotifyFinally
    \/ LinkDrop

SpecNotify == Init /\ [][NextNotify]_vars

(***************************************************************************)
(*                               Claims                                    *)
(***************************************************************************)
Stages == <<"connect", "auth", "write", "read", "decode">>
PollReturned == pc = "done"

\* C1: whenever a poll that got past the credential check returns (in any
\* way: decoded, failed stage, transport error, escaping exception),
\* self._client is None and the wait event is cleared.
C1_CleanupOnReturn ==
    (PollReturned /\ outcome # "skipped") => (client = None /\ ~event)

\* C1 witness: a poll whose connect succeeded and whose authenticate
\* failed on all attempts has returned as failed.
C1_Witness ==
    /\ PollReturned /\ outcome = "failed"
    /\ hist.started = {"connect", "auth"} /\ hist.okStages = {"connect"}

\* C2: at every return from poll no transport connection opened during
\* that poll is still open.
C2_NoConnectionLeftOpen ==
    PollReturned => (~hist.orphan /\ ~is_connected)

\* C3: with no password configured the poll is a single step to the
\* Skipped outcome: no transport call is ever awaited, and the handle, the
\* link and the delay tracker stay as constructed.
C3_SkippedTouchesNothing ==
    password # "set" =>
        /\ pc \in {"idle", "done"}
        /\ outcome \in {"none", "skipped"}
        /\ client = None /\ ~is_connected /\ ~hist.orphan
        /\ hist.started = {}
        /\ device_delays = [a \in Addresses |-> [k \in Kinds |-> NoEntry]]

\* C3 witness: a poll of a session without password has returned Skipped.
C3_Witness == PollReturned /\ outcome = "skipped" /\ password = "empty"

\* C4: the stages of a poll run in the order connect, authenticate,
\* command write, status read, decode: a stage is started only when every
\* earlier stage has succeeded, so a failed stage is the last one started.
C4_StageOrder ==
    \A i \in 1..5 : \A j \in 1..5 :
        (i < j /\ Stages[j] \in hist.started) => Stages[i] \in hist.okStages

\* C4 witness: a poll ran all five stages to a decoded status.
C4_Witness == PollReturned /\ outcome = "ok" /\ "decode" \in hist.okStages

\* C5: a status payload that fails to decode ends the poll with the
\* Failed outcome, not with an exception escaping to the caller.
C5_DecodeFailureIsFailedOutcome ==
    (PollReturned /\ "decode" \in hist.started
                  /\ "decode" \notin hist.okStages) => outcome = "failed"

PollInFlight == pc \notin {"idle", "done"}
RebootInFlight == pcE # "idle"

\* C6: operations on one session never overlap: while a poll is between
\* its connect and its final cleanup no other operation on the same
\* session object is in flight, and conversely.
C6_OperationsNeverOverlap == ~(PollInFlight /\ RebootInFlight)

\* C7: authenticate makes at most 3 attempts, returns at the first one
\* that succeeds, pauses 2 between consecutive attempts and not after the
\* last, and returns false once the third attempt has failed.
C7_AuthRetryDiscipline ==
    [][ /\ authTries' <= 3
        /\ ret'.auth # <<>> =>
            /\ authTries \in 1..3
            /\ acall.pauseLog = [i \in 1..(authTries - 1) |-> 2]
            /\ ret'.auth = <<FALSE>> => authTries = 3 ]_vars

\* C7 witness: authenticate has just returned false (after its attempts).
C7_Witness == ret.auth = <<FALSE>>

\* C8: whenever an authenticate attempt has failed and another attempt
\* follows, the connection is disconnected and self._client is None
\* before that next attempt starts.
C8_TeardownBeforeRetry ==
    pc = "auth_pause" => (client = None /\ ~is_connected)

\* C9: one authenticate call, retries included, invokes connect at most
\* once; a password write is issued only over a live connection; and a
\* call entered without a live connection that wrote no password returns
\* false.
C9_AtMostOneInlineReconnect ==
    [][ /\ acall'.connects <= 1
        /\ acall'.pwWrites > acall.pwWrites =>
                (client' = Client /\ is_connected')
        /\ (ret'.auth # <<>> /\ acall.dead /\ acall.pwWrites = 0) =>
                ret'.auth = <<FALSE>> ]_vars

\* C9 witness: an authenticate call entered without a live connection has
\* failed two attempts and is pausing before the third.
C9_Witness ==
    acall.dead /\ pc = "auth_pause" /\ Len(acall.pauseLog) = 2

\* C10: one connect invocation makes at most 7 transport attempts, stops
\* at the first that succeeds, and raises the transport error only when
\* the 7th attempt has failed.
C10_ConnectAttemptCeiling ==
    [][ /\ connTries' <= 7
        /\ ret'.connect # <<>> => connTries \in 1..7
        /\ ret'.connect = <<"BleakError">> => connTries = 7 ]_vars

\* C10 witness: connect has just raised the transport error to poll.
C10_Witness == ret.connect = <<"BleakError">> /\ outcome = "failed"

\* C11: connect returns a client only when its service catalog is
\* non-empty; it returns failure only after the one pause and re-check
\* found the catalog still empty, and a poll whose connect reported that
\* failure ends as failed having started no authenticate, write or read.
C11_ConnectNeedsServices ==
    [][ /\ ret'.connect = <<Client>> => clientServices'
        /\ ret'.connect = <<False>> =>
                (pc = "conn_services_wait" /\ ~clientServices')
        /\ (ret'.connect = <<False>> /\ connCaller = "poll") =>
                /\ pc' = "finally" /\ outcome' = "failed"
                /\ hist'.started = {"connect"} ]_vars

\* C11 witness: connect has just reported failure to poll after the
\* re-check, and the poll is on its way out.
C11_Witness ==
    /\ ret.connect = <<False>> /\ pc = "finally"
    /\ outcome = "failed" /\ hist.started = {"connect"}

\* the entry the last tracker call was made on, after the call
Touched == device_delays[arg.address][arg.operation]

\* C12: the n-th on_failure call in a row on a fresh entry stores and
\* returns min(0.5 * 2^min(n,3), max_delay), the sequence 1.0, 2.0, 4.0,
\* 4.0, 4.0, ..., and leaves the failure counter at n.
C12_FailureSequence ==
    (arg.fn = "_increase_operation_delay" /\ arg.run > 0) =>
        /\ Touched.failures = arg.run
        /\ Touched.delay = (IF arg.run = 1 THEN Scale
                            ELSE IF arg.run = 2 THEN 2 * Scale
                            ELSE 4 * Scale)
        /\ result = <<Touched.delay>>

\* C12 witness: the fifth failure in a row on a fresh entry returned 4.0.
C12_Witness ==
    /\ arg.fn = "_increase_operation_delay" /\ arg.run = 5
    /\ result = <<4 * Scale>>

C15_FailureNeverLowersDelay ==
    arg.fn = "_increase_operation_delay" =>
        /\ Touched.delay >= arg.before.delay
        /\ result[1] >= arg.before.delay

\* C16: the backoff fully recovers under successes alone: on_success
\* keeps changing an entry until its delay is exactly 0, so an entry that
\* on_success leaves as it is has delay 0.
C16_SuccessesReachZero ==
    \A a \in Addresses : \A k \in Kinds :
        _adjust_operation_delay(device_delays, a, k) = device_delays =>
            _get_operation_delay(device_delays, a, k) = 0

Decoded == result[1]
Info == arg.status.Z_sts
HasField(name, v) == name \in DOMAIN Decoded /\ Decoded[name] = v
DecodedMode == IF "mode" \in DOMAIN Decoded THEN Decoded["mode"] ELSE "none"
ExampleZsts == <<60, 75, 72, 68, 65, 0, 1, 0, 0, 0, 2, 0, 73, 0, 0, 3>>

\* C18: decode maps the positions of Z_sts to fields as 0=autoHeat_sp,
\* 1=autoCool_sp, 2=cool_sp, 3=heat_sp, 4=dry_sp, 6=fan_mode_num,
\* 7=cool_fan_mode_num, 9=auto_fan_mode_num, 10=mode_num,
\* 11=heat_fan_mode_num, 12=facePlateTemperature, 15=current_mode_num,
\* keeps positions 5, 8, 13 and 14 as raw values, and maps the codes of
\* mode and current_mode by the table 0 off, 1 fan, 2 cool, 3 cool_on,
\* 4 heat, 5 heat_on, 11 auto.
C18_PositionMapping ==
    (arg.fn = "decrypt" /\ result # <<>>) =>
        /\ HasField("autoHeat_sp", Info[1])
        /\ HasField("autoCool_sp", Info[2])
        /\ HasField("cool_sp", Info[3])
        /\ HasField("heat_sp", Info[4])
        /\ HasField("dry_sp", Info[5])
        /\ HasField("fan_mode_num", Info[7])
        /\ HasField("cool_fan_mode_num", Info[8])
        /\ HasField("auto_fan_mode_num", Info[10])
        /\ HasField("mode_num", Info[11])
        /\ HasField("heat_fan_mode_num", Info[12])
        /\ HasField("facePlateTemperature", Info[13])
        /\ HasField("current_mode_num", Info[16])
        /\ HasField("u5", Info[6]) /\ HasField("u8", Info[9])
        /\ HasField("u13", Info[14]) /\ HasField("u14", Info[15])
        /\ Info[11] \in DOMAIN modes => HasField("mode", modes[Info[11]])
        /\ Info[16] \in DOMAIN modes =>
                HasField("current_mode", modes[Info[16]])

\* C19: the fan-mode string is selected by the decoded mode: fan uses the
\* fan-only table on index 6, cool the full table on index 7, heat the
\* full table on index 11, auto the full table on index 9; with mode off
\* or unrecognized no fan-mode field is populated; the documented example
\* decodes to mode cool, current_mode cool_on, cool_fan_mode off.
C19_FanModeByMode ==
    (arg.fn = "decrypt" /\ result # <<>>) =>
        /\ (DecodedMode = "fan" /\ Info[7] \in DOMAIN FAN_MODES_FAN_ONLY)
                => HasField("fan_mode", FAN_MODES_FAN_ONLY[Info[7]])
        /\ (DecodedMode = "cool" /\ Info[8] \in DOMAIN FAN_MODES_FULL)
                => HasField("cool_fan_mode", FAN_MODES_FULL[Info[8]])
        /\ (DecodedMode = "heat" /\ Info[12] \in DOMAIN FAN_MODES_FULL)
                => HasField("heat_fan_mode", FAN_MODES_FULL[Info[12]])
        /\ (DecodedMode = "auto" /\ Info[10] \in DOMAIN FAN_MODES_FULL)
                => HasField("auto_fan_mode", FAN_MODES_FULL[Info[10]])
        /\ DecodedMode \notin {"fan", "cool", "heat", "auto"} =>
                DOMAIN Decoded \cap {"fan_mode", "cool_fan_mode",
                                     "heat_fan_mode", "auto_fan_mode"} = {}
        /\ Info = ExampleZsts =>
                /\ HasField("mode", "cool")
                /\ HasField("current_mode", "cool_on")
                /\ HasField("cool_fan_mode", "off")

\* C20: off is set (to true) iff 7 is in PRM and on is set (to true) iff
\* 15 is in PRM, independently of each other.
C20_FlagsFollowPRM ==
    (arg.fn = "decrypt" /\ result # <<>>) =>
        /\ "off" \in DOMAIN Decoded <=> 7 \in arg.status.PRM
        /\ "on" \in DOMAIN Decoded <=> 15 \in arg.status.PRM
        /\ "off" \in DOMAIN Decoded => Decoded["off"] = TRUE
        /\ "on" \in DOMAIN Decoded => Decoded["on"] = TRUE

\* C20 witness: a payload whose PRM holds 7 and not 15 was decoded with
\* off set and on absent.
C20_Witness ==
    /\ arg.fn = "decrypt" /\ result # <<>>
    /\ arg.status.PRM = {3, 7}
    /\ "off" \in DOMAIN Decoded /\ "on" \notin DOMAIN Decoded

\* C21: a mode_num or current_mode_num outside the table {0,1,2,3,4,5,11}
\* (99, say) is decoded without an error: the mode / current_mode string
\* is absent, no default such as off stands in for it, and the raw code
\* is in the record.
C21_UnknownModeLeftUnset ==
    (arg.fn = "decrypt" /\ result # <<>>) =>
        /\ Info[11] \notin DOMAIN modes =>
                /\ "mode" \notin DOMAIN Decoded
                /\ HasField("mode_num", Info[11])
        /\ Info[16] \notin DOMAIN modes =>
                /\ "current_mode" \notin DOMAIN Decoded
                /\ HasField("current_mode_num", Info[16])

\* C21 witness: a payload with mode_num 99 and current_mode_num 3 was
\* decoded: mode is absent, mode_num is 99, current_mode is cool_on.
C21_Witness ==
    /\ arg.fn = "decrypt" /\ result # <<>>
    /\ Info[11] = 99 /\ Info[16] = 3
    /\ "mode" \notin DOMAIN Decoded
    /\ HasField("mode_num", 99)
    /\ HasField("current_mode", "cool_on")

\* what the last call of decrypt came to, and whether its payload lacks
\* a required part
Outcome == result[1]
Incomplete ==
    \/ "SN" \notin DOMAIN arg.status
    \/ "PRM" \notin DOMAIN arg.status
    \/ "Z_sts" \notin DOMAIN arg.status
    \/ "0" \notin DOMAIN arg.status["Z_sts"]
    \/ Len(arg.status["Z_sts"]["0"]) < 16

\* C22: decode ends in an error and returns no record whenever the SN
\* key, the Z_sts zone-0 array or PRM is missing or the zone-0 array has
\* fewer than 16 entries; a record it returns has the SN of the payload,
\* never a default.
C22_IncompletePayloadRaises ==
    (arg.fn = "decrypt" /\ result # <<>>) =>
        /\ Incomplete =>
                /\ "raised" \in DOMAIN Outcome
                /\ "returned" \notin DOMAIN Outcome
        /\ "returned" \in DOMAIN Outcome =>
                /\ "SN" \in DOMAIN arg.status
                /\ Outcome.returned["SN"] = arg.status["SN"]

\* C22 witness: a payload with SN, PRM and a zone-0 array of 15 entries
\* was decoded and the call raised IndexError.
C22_Witness ==
    /\ arg.fn = "decrypt" /\ result # <<>>
    /\ DOMAIN arg.status = {"SN", "Z_sts", "PRM"}
    /\ "0" \in DOMAIN arg.status["Z_sts"]
    /\ Len(arg.status["Z_sts"]["0"]) = 15
    /\ Outcome = [raised |-> "IndexError"]

\* the record of the latest fetch of a consumer that decoded one
GoodRecord(by) == decrypt(consumer.good[by][1])

\* what a consumer holds is the complete record of its most recent
\* successful fetch or nothing
HoldsLatestOrNothing ==
    /\ consumer.state # Empty =>
            /\ consumer.good.climate # <<>>
            /\ consumer.state = GoodRecord("climate")
    /\ consumer.data # <<>> /\ consumer.data[1] # Empty =>
            /\ consumer.good.poll # <<>>
            /\ consumer.data[1] = SensorValues(GoodRecord("poll"))
    /\ consumer.native_value # <<>> =>
            /\ consumer.good.poll # <<>>
            /\ consumer.native_value[1] = GoodRecord("poll")[sensor_key]

\* C24: what a consumer holds after any fetches is the complete record
\* of its most recent successful fetch or nothing, never fields of two
\* payloads, and a poll that failed does not report the values of an
\* earlier poll as its result.
C24_ConsumerHoldsLatestOrNothing ==
    /\ HoldsLatestOrNothing
    /\ consumer.fetch = [by |-> "poll", outcome |-> "failed"] =>
            consumer.data[1] = Empty

\* C25: reboot reports true when the write of the reset command raises a
\* transport error of the disconnect-during-reset signature and false
\* for any other transport error; the same error raised by a GATT call
\* of poll's authenticate, command write or status read is a failure of
\* that stage: the stage is not passed, the poll does not end ok, and a
\* helper counts the failure or gives up.
C25_ResetSignatureOnlyForReboot ==
    [][/\ ret'.reboot # <<>> =>
            /\ ret'.reboot[1].raised = "reset signature" =>
                    ret'.reboot[1].reported
            /\ ret'.reboot[1].raised = "BleakError" =>
                    ~ret'.reboot[1].reported
       /\ (/\ ret'.gatt # <<>>
           /\ ret'.gatt[1].raised \in {"reset signature",
                                       "connection status"}) =>
            /\ hist'.okStages = hist.okStages
            /\ outcome' # "ok"
            /\ ret'.auth # <<TRUE>>
            /\ ret'.gatt[1].stage \in {"write", "read"} =>
                    \/ /\ ioTries < 3
                       /\ device_delays'[Address][helper].failures =
                            device_delays[Address][helper].failures + 1
                    \/ /\ ioTries = 3
                       /\ outcome' = "failed"]_vars

\* C25 witness: the status read of a poll raised the reset-signature
\* error for the third time and the poll failed without passing the read
\* stage.
C25_Witness ==
    /\ ret.gatt = <<[stage |-> "read", raised |-> "reset signature"]>>
    /\ outcome = "failed"
    /\ "write" \in hist.okStages /\ "read" \notin hist.okStages

\* the wait lasts 15 time-units at most, and after it, timed out or
\* not, the connection is disconnected and the event cleared when the
\* poll is over
WaitBoundedAndCleanedUp ==
    /\ notify.elapsed <= 15
    /\ (pc = "done" /\ notify.ended # "none") => ~is_connected /\ ~event

\* C26: in the poll variant that waits for a notification the wait ends
\* after at most 15 time-units; a poll whose wait timed out is not failed
\* but returns normally; and after the wait, timed out or not, the
\* connection is disconnected and the event cleared when the poll is over.
C26_TimeoutNotFatal ==
    /\ WaitBoundedAndCleanedUp
    /\ (pc = "done" /\ notify.ended = "timeout") => outcome = "ok"

\* a step that issues the GATT write or read of a helper
IssuesGatt == pc' = "io_op" /\ (pc # "io_op" \/ helper' # helper)

\* C27: every GATT write or read of the helpers is issued with the
\* connection handle set, in an attempt that found the connection up at
\* its check or whose reconnect_and_authenticate succeeded.
C27_GattNeedsHandle ==
    [][IssuesGatt =>
            /\ client' = Client
            /\ hist'.ready \in {"checked", "reconnected"}]_vars

\* C27 witness: the status read is in flight in an attempt that had to
\* reconnect and authenticate first.
C27_Witness ==
    /\ pc = "io_op" /\ helper = "read"
    /\ hist.ready = "reconnected"
    /\ client = Client

\* C28: the helpers never issue a GATT write or read on a link that is
\* down when the call is issued, also when the link drops during the
\* adaptive-delay wait between the check and the call.
C28_NoGattOnDeadLink ==
    [][IssuesGatt => is_connected']_vars

\* C29: one call of write_with_retry issues 3 writes at most; the first
\* write that succeeds ends it with success, on_success(write) applied
\* once and no further write; the third transport failure of a write
\* ends it with failure; an earlier one leads to the next attempt.
C29_WriteRetriesBounded ==
    [][(pc = "io_op" /\ helper = "write" /\ ret'.gatt # <<>>) =>
            /\ ioTries <= 3
            /\ ret'.gatt[1].raised = "none" =>
                    /\ helper' = "read"
                    /\ "write" \in hist'.okStages
                    /\ device_delays' =
                        _adjust_operation_delay(device_delays, Address,
                                                "write")
            /\ (ret'.gatt[1].raised \in {"BleakError", "connection status",
                                         "reset signature"}) =>
                    IF ioTries = 3
                    THEN pc' = "finally" /\ outcome' = "failed"
                    ELSE helper' = "write" /\ ioTries' = ioTries + 1]_vars

\* C29 witness: the write raised a transport error for the third time
\* (two failures were counted before it) and the poll failed.
C29_Witness ==
    /\ ret.gatt = <<[stage |-> "write", raised |-> "BleakError"]>>
    /\ device_delays[Address]["write"].failures = 2
    /\ pc = "finally" /\ outcome = "failed"

\* reconnect_and_authenticate runs for an attempt of write_with_retry
RaaRunning ==
    /\ helper = "write"
    /\ pc \notin {"io_sleep", "io_op", "idle", "done", "finally",
                  "finally_disconnect"}

\* C30: when reconnect_and_authenticate, run at the start of an attempt
\* of write_with_retry, fails, write_with_retry fails at once: no write
\* is issued in that attempt, no further attempt is made, and the
\* attempt leaves the write delay bucket as it was.
C30_ReconnectFailureAborts ==
    [][RaaRunning =>
            /\ device_delays'[Address]["write"] =
                    device_delays[Address]["write"]
            /\ pc' = "io_op" => ret'.auth = <<TRUE>>
            /\ (\/ authCaller = "raa" /\ ret'.auth = <<FALSE>>
                \/ /\ connCaller = "raa" /\ ret'.connect # <<>>
                   /\ ~(client' = Client /\ is_connected'))
                => /\ pc' = "finally" /\ outcome' = "failed"
                   /\ helper' = "none" /\ ioTries' = 0]_vars

\* C30 witness: authenticate returned false to the
\* reconnect_and_authenticate of a second attempt of the write (the poll
\* had passed its own authenticate, one write failure is counted, the
\* write stage is not passed), and the poll failed.
C30_Witness ==
    /\ ret.auth = <<FALSE>>
    /\ "auth" \in hist.okStages /\ "write" \notin hist.okStages
    /\ device_delays[Address]["write"].failures = 1
    /\ pc = "finally" /\ outcome = "failed"

\* where the poll coroutine is: inside _connect_to_device called by c,
\* inside authenticate called by c, inside _reconnect_and_authenticate
ConnPcs == {"conn_try", "conn_services_wait"}
AuthPcs == {"auth_discover", "auth_discover_sleep", "auth_pause",
            "auth_reconnect_sleep", "auth_teardown", "auth_wait_conn",
            "auth_write"}
InConnect(c) == pc \in ConnPcs /\ connCaller = c
InAuth(c) == authCaller = c /\ (pc \in AuthPcs \/ InConnect("auth"))
InRaa ==
    \/ pc \in {"raa_conn_sleep", "raa_auth_sleep"}
    \/ InConnect("raa")
    \/ InAuth("raa")

\* the transport errors a GATT call of a helper can raise
TransportErrors == {"BleakError", "connection status", "reset signature"}

\* C31: read_with_retry mirrors write_with_retry: a GATT call of either
\* helper that completes is one of at most 3 attempts, touches the
\* helper's own bucket only (read for the read, write for the write), a
\* success applies on_success to it and ends the helper, a transport
\* failure before the third applies on_failure to it and starts the
\* next attempt, which runs reconnect_and_authenticate iff the link is
\* down, and the third transport failure ends the helper with failure.
C31_ReadMirrorsWrite ==
    [][(pc = "io_op" /\ ret'.gatt # <<>>) =>
        LET h == helper
            other == IF h = "write" THEN "read" ELSE "write"
            g == ret'.gatt[1]
        IN /\ g.stage = h
           /\ ioTries <= 3
           /\ device_delays'[Address][other] = device_delays[Address][other]
           /\ g.raised = "none" =>
                /\ device_delays' =
                        _adjust_operation_delay(device_delays, Address, h)
                /\ helper' # h
           /\ g.raised \in TransportErrors =>
                IF ioTries = 3
                THEN /\ pc' = "finally" /\ outcome' = "failed"
                     /\ helper' = "none"
                ELSE /\ helper' = h /\ ioTries' = ioTries + 1
                     /\ device_delays' =
                          _increase_operation_delay(device_delays, Address, h)
                     /\ IF client' = Client /\ is_connected'
                        THEN pc' \in {"io_sleep", "io_op"}
                        ELSE pc' \in {"raa_conn_sleep", "conn_try"}
                                /\ hist'.ready = "no"]_vars

\* C31 witness: the read raised a transport error for the third time, two
\* failures are counted in the read bucket, none in the write bucket, and
\* the poll failed.
C31_Witness ==
    /\ ret.gatt = <<[stage |-> "read", raised |-> "BleakError"]>>
    /\ device_delays[Address]["read"].failures = 2
    /\ device_delays[Address]["write"].failures = 0
    /\ "write" \in hist.okStages
    /\ pc = "finally" /\ outcome = "failed"

\* C32: in reconnect_and_authenticate, a connect that raises or leaves no
\* live connection applies on_failure(connect) once, leaves the auth
\* bucket alone, calls no authenticate and gives false; a connect that
\* succeeds applies on_success(connect) and goes on to authenticate,
\* whose result is the result, with on_success(auth) applied when it is
\* true and on_failure(auth) when it is false.
C32_ReconnectBookkeeping ==
    [][/\ (InConnect("raa") /\ ret'.connect # <<>>) =>
            IF ret'.connect = <<Client>> /\ client' = Client /\ is_connected'
            THEN /\ device_delays' =
                      _adjust_operation_delay(device_delays, Address,
                                              "connect")
                 /\ pc' \in AuthPcs \cup {"raa_auth_sleep", "conn_try"}
                 /\ pc' # "raa_auth_sleep" => authCaller' = "raa"
            ELSE /\ device_delays' =
                      _increase_operation_delay(device_delays, Address,
                                                "connect")
                 /\ ret'.auth = <<>>
                 /\ pc' = "finally" /\ outcome' = "failed"
       /\ (InAuth("raa") /\ ret'.auth # <<>>) =>
            IF ret'.auth = <<TRUE>>
            THEN /\ device_delays' =
                      _adjust_operation_delay(device_delays, Address, "auth")
                 /\ hist'.ready = "reconnected"
                 /\ pc' \in {"io_sleep", "io_op"}
            ELSE /\ device_delays' =
                      _increase_operation_delay(device_delays, Address,
                                                "auth")
                 /\ pc' = "finally" /\ outcome' = "failed"]_vars

\* C32 witness: the connect of a reconnect_and_authenticate raised, one
\* connect failure is counted (next to the write failure that led to the
\* reconnect), no auth failure, and the poll failed.
C32_Witness ==
    /\ ret.connect = <<"BleakError">> /\ ret.auth = <<>>
    /\ "auth" \in hist.okStages
    /\ device_delays[Address]["connect"].failures = 1
    /\ ~device_delays[Address]["auth"].present
    /\ pc = "finally" /\ outcome = "failed"

\* C34: the delay tracker survives across polls: the cleanup of a poll,
\* the time between two polls, the start of the next poll and the
\* Skipped exit leave every tracker entry as it was.
C34_TrackerSurvivesPolls ==
    [][(pc \in {"finally", "finally_disconnect", "idle", "done"}) =>
            device_delays' = device_delays]_vars

\* C34 witness: a poll has just started its connect and the tracker holds
\* the two write failures an earlier poll left.
C34_Witness ==
    /\ pc = "conn_try" /\ connCaller = "poll" /\ hist.okStages = {}
    /\ device_delays[Address]["write"].failures = 2
    /\ device_delays[Address]["write"].delay = 2 * Scale

\* C35: a helper invocation whose 3 attempts all fail at the transport
\* applies on_failure to its bucket twice: the third failure leaves the
\* tracker unchanged, the counter ends 2 above its value at the call, and
\* from a fresh bucket the invocation ends with failures = 2 and
\* delay = 2.0.
C35_ExhaustedCountsTwice ==
    [][(pc = "io_op" /\ ret'.gatt # <<>> /\ ioTries = 3
            /\ ret'.gatt[1].raised \in TransportErrors) =>
        LET b == device_delays'[Address][helper]
        IN /\ device_delays' = device_delays
           /\ b.failures = hist.atStart.failures + 2
           /\ ~hist.atStart.present =>
                    b.failures = 2 /\ b.delay = 2 * Scale]_vars

\* C35 witness: the third read of a poll failed at the transport; the
\* read bucket was fresh at the call and now counts 2 failures.
C35_Witness ==
    /\ ret.gatt = <<[stage |-> "read", raised |-> "connection status"]>>
    /\ ~hist.atStart.present
    /\ device_delays[Address]["read"].failures = 2
    /\ device_delays[Address]["read"].delay = 2 * Scale
    /\ pc = "finally" /\ outcome = "failed"

\* C36: an exception of the GATT call that is no transport error leaves
\* the helper at once: no further attempt, no tracker update, and it
\* leaves poll only after the cleanup set the handle to None and cleared
\* the event.
C36_OtherExceptionPropagates ==
    [][/\ (pc = "io_op" /\ ret'.gatt # <<>>
                /\ ret'.gatt[1].raised = "Exception") =>
            /\ device_delays' = device_delays
            /\ helper' = "none" /\ ioTries' = 0
            /\ pc' = "finally" /\ outcome' = "raised"
       /\ (outcome = "raised" /\ pc \in {"finally", "finally_disconnect"}) =>
            /\ outcome' = "raised"
            /\ pc' \in {"finally", "finally_disconnect", "done"}
       /\ (outcome' = "raised" /\ pc' = "done") =>
            client' = None /\ ~event']_vars

\* C36 witness: the second attempt of the read raised an exception that
\* is no transport error (one read failure is counted) and the poll is
\* about to raise.
C36_Witness ==
    /\ ret.gatt = <<[stage |-> "read", raised |-> "Exception"]>>
    /\ device_delays[Address]["read"].failures = 1
    /\ pc = "finally" /\ outcome = "raised"

\* C37: the connect and the authenticate that poll itself calls neither
\* wait for nor update a delay bucket; the connect and auth buckets
\* change only inside reconnect_and_authenticate, which starts only when
\* the link is down.
C37_PollConnectAuthUntracked ==
    [][/\ (InConnect("poll") \/ InAuth("poll") \/ pc \in {"idle", "done"}) =>
            /\ device_delays' = device_delays
            /\ pc' \notin {"raa_conn_sleep", "raa_auth_sleep"}
       /\ (\E k \in {"connect", "auth"} :
             device_delays'[Address][k] # device_delays[Address][k]) => InRaa
       /\ (~InRaa /\ InRaa') => ~(client' = Client /\ is_connected')]_vars

\* C37 witness: the authenticate that poll itself called returned false,
\* and the auth bucket still holds the one failure that an earlier poll's
\* reconnect_and_authenticate left.
C37_Witness ==
    /\ ret.auth = <<FALSE>>
    /\ hist.okStages = {"connect"}
    /\ device_delays[Address]["auth"].failures = 1
    /\ pc = "finally" /\ outcome = "failed"

\* the tracker bound of the model cuts the running poll short: the
\* counter its next step would raise is at MaxFailures
CutShort == PollInFlight /\ ~ENABLED PollStep

\* C38: every poll terminates when each call it awaits returns (up to
\* the tracker bound, where the model stops following it); one poll issues at most 3 writes and at most 3 reads;
\* reconnect_and_authenticate starts only in a step that starts a new
\* attempt of a helper, so at most once per attempt; and once a poll is
\* on its way out no retry loop runs again in it.
C38_PollTerminatesBounded ==
    /\ PollInFlight ~> (PollReturned \/ CutShort)
    /\ [][/\ hist'.issued["write"] <= 3 /\ hist'.issued["read"] <= 3
          /\ (~InRaa /\ InRaa') =>
                /\ helper' \in {"write", "read"}
                /\ helper' # helper \/ ioTries' = ioTries + 1
          /\ (pc \in {"finally", "finally_disconnect"}) =>
                /\ pc' \in {"finally", "finally_disconnect", "done"}
                /\ helper' = "none" /\ ioTries' = 0
                /\ connTries' = 0 /\ authTries' = 0
                /\ hist'.issued = hist.issued]_vars

\* C38 witness: a poll has returned as failed after one write and 3
\* reads that all failed at the transport.
C38_Witness ==
    /\ PollReturned /\ outcome = "failed"
    /\ hist.issued = [write |-> 1, read |-> 3]

\* C33: tracker entries are independent: a call of on_failure,
\* on_success or get_delay for one (address, kind) leaves the entry of
\* every other (address, kind) as it was, whatever the two addresses and
\* the kind.
C33_EntriesIndependent ==
    [][\A a \in Addresses : \A k \in Kinds :
        (a # arg'.address \/ k # arg'.operation) =>
            device_delays'[a][k] = device_delays[a][k]]_vars

\* C33 witness: on_failure was just applied to the auth entry of the
\* second address, which counts 1 failure, while the auth entry of the
\* first counts 2.
C33_Witness ==
    /\ arg.fn = "_increase_operation_delay"
    /\ arg.address = "a2" /\ arg.operation = "auth"
    /\ device_delays["a2"]["auth"].failures = 1
    /\ device_delays["a1"]["auth"].failures = 2

\* C39: every failure counter is a natural number; get_delay returns 0
\* for an unrecorded (address, kind), the stored delay otherwise, and
\* changes nothing; on_success on an unrecorded (address, kind) changes
\* nothing; on_success on an entry with failures = 0 leaves the counter
\* at 0 and keeps the delay unless it is below 0.1.
C39_TrackerInvariants ==
    [][LET a == arg'.address
           k == arg'.operation
           old == device_delays[a][k]
           new == device_delays'[a][k]
       IN /\ \A x \in Addresses : \A y \in Kinds :
                device_delays'[x][y].failures \in Nat
          /\ arg'.fn = "_get_operation_delay" =>
                /\ device_delays' = device_delays
                /\ result' = <<IF old.present THEN old.delay ELSE 0>>
          /\ (arg'.fn = "_adjust_operation_delay" /\ ~old.present) =>
                device_delays' = device_delays
          /\ (arg'.fn = "_adjust_operation_delay" /\ old.present
                    /\ old.failures = 0) =>
                /\ new.failures = 0
                /\ old.delay * 10 >= Scale => new.delay = old.delay]_vars

\* C39 witness: on_success was just applied to an entry with failures = 0
\* and delay 0.75 (one failure, one success before), which it left so.
C39_Witness ==
    /\ arg.fn = "_adjust_operation_delay"
    /\ arg.before = [present |-> TRUE, delay |-> (3 * Scale) \div 4,
                     failures |-> 0]
    /\ device_delays[arg.address][arg.operation] = arg.before

====
